---------------------------- MODULE Spec2Model ----------------------------
(***************************************************************************)
(* Scam-detection backend: the rolling transcript store                   *)
(* (services/context_manager.py), the classifier client                   *)
(* (services/llm_analysis.py), the transcription client                   *)
(* (services/transcription.py) and the HTTP handlers (main.py).           *)
(*                                                                         *)
(* Strings are sequences of one-character strings, so that strip, split,  *)
(* join and the brace scan are computed as the code computes them.        *)
(***************************************************************************)
EXTENDS Integers, Sequences, FiniteSets, TLC

VARIABLES
    transcripts,   \* TranscriptContext.transcripts (deque of texts)
    timestamps,    \* TranscriptContext.timestamps  (deque of datetimes, in seconds)
    now,           \* the wall clock read by datetime.now()
    oldest,        \* history: marks, per stored fragment, the first one appended since the last clear
    nApp,          \* history: non-blank appends since the last clear, saturating at MAX_CONTEXT_ITEMS + 1
    recent,        \* history: the last MAX_CONTEXT_ITEMS non-blank texts passed to add_transcript since the last clear
    last,          \* history: the last step taken, with its text argument or the request it moved
    cfg,           \* config.py: which API keys the environment provides
    reqs,          \* the HTTP requests in flight: each suspended handler's position and locals
    ingested,      \* history: the transcripts the handlers handed to add_transcript since the last reset
    call,          \* a call of analyze_transcript on its own: its arguments and the remote outcome
    ret            \* what that call returned

storeVars == <<transcripts, timestamps, oldest, nApp, recent>>
apiVars == <<cfg, reqs, ingested>>
clsVars == <<call, ret>>
vars == <<transcripts, timestamps, now, oldest, nApp, recent, last, cfg, reqs, ingested, call, ret>>

-----------------------------------------------------------------------------
(* Program constants *)

CONTEXT_WINDOW_SECONDS == 30
MAX_CONTEXT_ITEMS == 10

(* Bounds of the model *)

\* the store driven directly: the clock advances MaxTicks times at most, each
\* time by more than a window, so that every stored fragment goes stale
MaxTicks == 1
CoarseTick == CONTEXT_WINDOW_SECONDS + 1

-----------------------------------------------------------------------------
(* Python string helpers *)

\* characters str.strip() removes, among those the model uses
Whitespace == {" ", "\n"}

RECURSIVE LStrip(_)
LStrip(s) ==
    IF s # <<>> /\ Head(s) \in Whitespace THEN LStrip(Tail(s)) ELSE s

RECURSIVE RStrip(_)
RStrip(s) ==
    IF s # <<>> /\ s[Len(s)] \in Whitespace
    THEN RStrip(SubSeq(s, 1, Len(s) - 1))
    ELSE s

\* str.strip()
Strip(s) == RStrip(LStrip(s))

\* sep.join(parts)
RECURSIVE Join(_, _)
Join(parts, sep) ==
    IF parts = <<>> THEN <<>>
    ELSE IF Len(parts) = 1 THEN parts[1]
    ELSE parts[1] \o sep \o Join(Tail(parts), sep)

-----------------------------------------------------------------------------
(* services/context_manager.py *)

\* deque(maxlen=MAX_CONTEXT_ITEMS).append(x): a full deque drops its left end
\* (mutant: a full deque refuses the new element instead)
DequeAppendDropNewest(d, x) ==
    IF Len(d) >= MAX_CONTEXT_ITEMS THEN d ELSE Append(d, x)

\* (mutant: appendleft, a full deque dropping its right end)
DequeAppendLeft(d, x) ==
    IF Len(d) >= MAX_CONTEXT_ITEMS THEN <<x>> \o SubSeq(d, 1, Len(d) - 1) ELSE <<x>> \o d

DequeAppend(d, x) ==
    IF Len(d) >= MAX_CONTEXT_ITEMS THEN Append(Tail(d), x) ELSE Append(d, x)

\* the texts add_transcript ignores
IsBlank(text) == Strip(text) = <<>>

\* the last n elements of a sequence (all of it when it is shorter)
LastN(s, n) == IF Len(s) <= n THEN s ELSE SubSeq(s, Len(s) - n + 1, Len(s))

\* history: what a call of add_transcript adds to the record of the texts
\* passed to it
Recorded(text) ==
    IF Strip(text) # <<>> THEN LastN(Append(recent, text), MAX_CONTEXT_ITEMS)
    ELSE recent

\* (mutant: "if text:" instead of "if text.strip():")
add_transcript_no_strip(text) ==
    IF text # <<>>
    THEN /\ transcripts' = DequeAppend(transcripts, text)
         /\ timestamps' = DequeAppend(timestamps, now)
         /\ oldest' = DequeAppend(oldest, nApp = 0)
         /\ nApp' = IF nApp > MAX_CONTEXT_ITEMS THEN nApp ELSE nApp + 1
         /\ recent' = Recorded(text)
    ELSE /\ UNCHANGED <<transcripts, timestamps, oldest, nApp>>
         /\ recent' = Recorded(text)

\* (mutant: a torn append, the text is stored and its timestamp is not)
add_transcript_torn(text) ==
    IF ~IsBlank(text)
    THEN /\ transcripts' = DequeAppend(transcripts, text)
         /\ timestamps' = timestamps
         /\ oldest' = DequeAppend(oldest, nApp = 0)
         /\ nApp' = IF nApp > MAX_CONTEXT_ITEMS THEN nApp ELSE nApp + 1
         /\ recent' = Recorded(text)
    ELSE /\ UNCHANGED <<transcripts, timestamps, oldest, nApp>>
         /\ recent' = Recorded(text)

\* TranscriptContext.add_transcript
add_transcript(text) ==
    IF ~IsBlank(text)
    THEN /\ transcripts' = DequeAppend(transcripts, text)
         /\ timestamps' = DequeAppend(timestamps, now)
         /\ oldest' = DequeAppend(oldest, nApp = 0)
         /\ nApp' = IF nApp > MAX_CONTEXT_ITEMS THEN nApp ELSE nApp + 1
         /\ recent' = Recorded(text)
    ELSE /\ UNCHANGED <<transcripts, timestamps, oldest, nApp>>
         /\ recent' = Recorded(text)

RECURSIVE InWindow(_, _, _)
RECURSIVE InWindowStrict(_, _, _)
(* mutant: a fragment stamped exactly at the cutoff is left out *)
InWindowStrict(trs, tss, cutoff) ==
    IF trs = <<>> \/ tss = <<>> THEN <<>>
    ELSE (IF Head(tss) > cutoff THEN <<Head(trs)>> ELSE <<>>)
         \o InWindowStrict(Tail(trs), Tail(tss), cutoff)

\* zip(self.transcripts, self.timestamps) filtered by timestamp >= cutoff_time
InWindow(trs, tss, cutoff) ==
    IF trs = <<>> \/ tss = <<>> THEN <<>>
    ELSE (IF Head(tss) >= cutoff THEN <<Head(trs)>> ELSE <<>>)
         \o InWindow(Tail(trs), Tail(tss), cutoff)

(* mutant: every stored fragment is joined, whatever its age *)
GetContextUnfiltered(trs, tss, t) ==
    Join(trs, <<" ">>)

\* TranscriptContext.get_context, on a given store at a given time
GetContext(trs, tss, t) ==
    Join(InWindow(trs, tss, t - CONTEXT_WINDOW_SECONDS), <<" ">>)

get_context == GetContext(transcripts, timestamps, now)

\* TranscriptContext.get_all_transcripts
get_all_transcripts == transcripts

\* TranscriptContext.__len__
size == Len(transcripts)

(* mutant: clear removes the oldest fragment only *)
clear_pops_oldest ==
    /\ transcripts' = IF transcripts = <<>> THEN <<>> ELSE Tail(transcripts)
    /\ timestamps' = IF timestamps = <<>> THEN <<>> ELSE Tail(timestamps)
    /\ oldest' = <<>>
    /\ nApp' = 0
    /\ recent' = <<>>

(* mutant: clear empties the timestamps and leaves the transcripts *)
clear_timestamps_only ==
    /\ transcripts' = transcripts
    /\ timestamps' = <<>>
    /\ oldest' = <<>>
    /\ nApp' = 0
    /\ recent' = <<>>

\* TranscriptContext.clear
clear ==
    /\ transcripts' = <<>>
    /\ timestamps' = <<>>
    /\ oldest' = <<>>
    /\ nApp' = 0
    /\ recent' = <<>>

-----------------------------------------------------------------------------
(* Python values, as json.loads builds them and as the handlers pass them on *)

VStr(s) == [t |-> "str", s |-> s]
VNum(n) == [t |-> "num", n |-> n]
VNull == [t |-> "null"]
VBool(b) == [t |-> "bool", b |-> b]
VList(items) == [t |-> "list", items |-> items]
VObj(members) == [t |-> "obj", members |-> members]

\* the markdown code fence (three backquotes), one symbol of the model
Fence == "<fence>"

\* Optional[str] arguments: None, or a string
None == <<>>
Some(s) == <<s>>

\* number literals of the model, and their values in tenths
NumberSyms == {"0.0", "0.9", "5"}
NumValue(sym) == CASE sym = "0.0" -> 0 [] sym = "0.9" -> 9 [] sym = "5" -> 50 [] OTHER -> 0

\* str.lower(), symbol by symbol
LowerSym(c) ==
    CASE c = "HIGH" -> "high"
      [] c = "Medium" -> "medium"
      [] OTHER -> c

Lower(s) == [i \in 1..Len(s) |-> LowerSym(s[i])]

\* s.find(c), 1-based; 0 when c does not occur at or after position i
RECURSIVE FindFrom(_, _, _)
FindFrom(s, c, i) ==
    IF i > Len(s) THEN 0
    ELSE IF s[i] = c THEN i
    ELSE FindFrom(s, c, i + 1)

\* s.split(sep) for a one-character separator
RECURSIVE Split(_, _)
Split(s, sep) ==
    LET j == FindFrom(s, sep, 1) IN
    IF j = 0 THEN <<s>>
    ELSE <<SubSeq(s, 1, j - 1)>> \o Split(SubSeq(s, j + 1, Len(s)), sep)

\* xs[-2:]
LastTwo(xs) == IF Len(xs) <= 2 THEN xs ELSE SubSeq(xs, Len(xs) - 1, Len(xs))

-----------------------------------------------------------------------------
(* json.loads, on the symbols of the model *)

ParseFail == [ok |-> FALSE, val |-> VNull, next |-> 0]

\* the first position at or after i that holds no whitespace
RECURSIVE SkipWs(_, _)
SkipWs(s, i) ==
    IF i <= Len(s) /\ s[i] \in Whitespace THEN SkipWs(s, i + 1) ELSE i

\* a string literal opening at position i; a raw newline inside it is an error
ParseString(s, i) ==
    LET j == FindFrom(s, "\"", i + 1) IN
    IF j = 0 \/ \E k \in (i + 1)..(j - 1) : s[k] = "\n"
    THEN ParseFail
    ELSE [ok |-> TRUE, val |-> VStr(SubSeq(s, i + 1, j - 1)), next |-> j + 1]

RECURSIVE ParseValue(_, _)
RECURSIVE ParseMembers(_, _, _)
RECURSIVE ParseElements(_, _, _)

ParseValue(s, i) ==
    IF i > Len(s) THEN ParseFail
    ELSE IF s[i] = "\"" THEN ParseString(s, i)
    ELSE IF s[i] \in NumberSyms
         THEN [ok |-> TRUE, val |-> VNum(NumValue(s[i])), next |-> i + 1]
    ELSE IF s[i] = "null" THEN [ok |-> TRUE, val |-> VNull, next |-> i + 1]
    ELSE IF s[i] \in {"true", "false"}
         THEN [ok |-> TRUE, val |-> VBool(s[i] = "true"), next |-> i + 1]
    ELSE IF s[i] = "{"
         THEN LET j == SkipWs(s, i + 1) IN
              IF j <= Len(s) /\ s[j] = "}"
              THEN [ok |-> TRUE, val |-> VObj(<<>>), next |-> j + 1]
              ELSE ParseMembers(s, j, <<>>)
    ELSE IF s[i] = "["
         THEN LET j == SkipWs(s, i + 1) IN
              IF j <= Len(s) /\ s[j] = "]"
              THEN [ok |-> TRUE, val |-> VList(<<>>), next |-> j + 1]
              ELSE ParseElements(s, j, <<>>)
    ELSE ParseFail

\* "key": value pairs from position i on, up to the closing brace
ParseMembers(s, i, acc) ==
    IF i > Len(s) \/ s[i] # "\"" THEN ParseFail
    ELSE LET k == ParseString(s, i) IN
    IF ~k.ok THEN ParseFail
    ELSE LET c == SkipWs(s, k.next) IN
    IF c > Len(s) \/ s[c] # ":" THEN ParseFail
    ELSE LET v == ParseValue(s, SkipWs(s, c + 1)) IN
    IF ~v.ok THEN ParseFail
    ELSE LET d == SkipWs(s, v.next)
             more == Append(acc, [k |-> k.val.s, v |-> v.val]) IN
    IF d > Len(s) THEN ParseFail
    ELSE IF s[d] = "}" THEN [ok |-> TRUE, val |-> VObj(more), next |-> d + 1]
    ELSE IF s[d] = "," THEN ParseMembers(s, SkipWs(s, d + 1), more)
    ELSE ParseFail

\* array elements from position i on, up to the closing bracket
ParseElements(s, i, acc) ==
    LET v == ParseValue(s, i) IN
    IF ~v.ok THEN ParseFail
    ELSE LET d == SkipWs(s, v.next)
             more == Append(acc, v.val) IN
    IF d > Len(s) THEN ParseFail
    ELSE IF s[d] = "]" THEN [ok |-> TRUE, val |-> VList(more), next |-> d + 1]
    ELSE IF s[d] = "," THEN ParseElements(s, SkipWs(s, d + 1), more)
    ELSE ParseFail

\* json.loads(s): one value, surrounded by whitespace only
JsonLoads(s) ==
    LET r == ParseValue(s, SkipWs(s, 1)) IN
    IF r.ok /\ SkipWs(s, r.next) > Len(s) THEN r ELSE ParseFail

\* dict.get(key, default): the last member with that key wins
RECURSIVE DictGet(_, _, _)
DictGet(members, key, default) ==
    IF members = <<>> THEN default
    ELSE IF members[Len(members)].k = key THEN members[Len(members)].v
    ELSE DictGet(SubSeq(members, 1, Len(members) - 1), key, default)

-----------------------------------------------------------------------------
(* The remote classifier's answers *)

Q == "\""
StrLit(sym) == <<Q, sym, Q>>
Member(key, value) == <<Q, key, Q, ":">> \o value

\* One answer text, described by what it is made of: the text before the
\* object, the object's members (each absent, well formed or mistyped) and
\* the text after it; or, for raw # "none", a text that holds no object.
PreChoices == {"none", "prose", "fence", "prose_fence", "prose_brace"}
PostChoices == {"none", "fence", "prose_brace"}
ExtraChoices == {"absent", "nested"}
RiskChoices == {"absent", "HIGH", "null", "num"}
ConfChoices == {"absent", "0.9", "5", "str0.9", "abc", "null"}
ReasonsChoices == {"absent", "empty", "one", "null", "brace"}
ScamChoices == {"absent", "gift", "null"}
RawChoices == {"empty", "prose", "unclosed", "not_json"}

ObjectShapes ==
    [raw : {"none"}, pre : PreChoices, extra : ExtraChoices, risk : RiskChoices,
     conf : ConfChoices, reasons : ReasonsChoices, scam : ScamChoices,
     post : PostChoices]

RawShapes ==
    [raw : RawChoices, pre : {"none"}, extra : {"absent"}, risk : {"absent"},
     conf : {"absent"}, reasons : {"absent"}, scam : {"absent"}, post : {"none"}]

NoShape ==
    [raw |-> "empty", pre |-> "none", extra |-> "absent", risk |-> "absent",
     conf |-> "absent", reasons |-> "absent", scam |-> "absent", post |-> "none"]

RenderPre(c) ==
    CASE c = "prose" -> <<"Sure!", " ">>
      [] c = "fence" -> <<Fence, "json", "\n">>
      [] c = "prose_fence" -> <<"Sure!", " ", Fence, "json", "\n">>
      [] c = "prose_brace" -> <<"see", " ", "{", "x", "}", ":", " ">>
      [] OTHER -> <<>>

RenderPost(c) ==
    CASE c = "fence" -> <<"\n", Fence>>
      [] c = "prose_brace" -> <<" ", "ok", "}">>
      [] OTHER -> <<>>

RenderExtra(c) ==
    IF c = "nested"
    THEN <<Member("meta", <<"{">> \o Member("k", StrLit("x")) \o <<"}">>)>>
    ELSE <<>>

RenderRisk(c) ==
    CASE c = "HIGH" -> <<Member("risk_level", StrLit("HIGH"))>>
      [] c = "null" -> <<Member("risk_level", <<"null">>)>>
      [] c = "num" -> <<Member("risk_level", <<"5">>)>>
      [] OTHER -> <<>>

RenderConf(c) ==
    CASE c = "0.9" -> <<Member("confidence", <<"0.9">>)>>
      [] c = "5" -> <<Member("confidence", <<"5">>)>>
      [] c = "str0.9" -> <<Member("confidence", StrLit("0.9"))>>
      [] c = "abc" -> <<Member("confidence", StrLit("abc"))>>
      [] c = "null" -> <<Member("confidence", <<"null">>)>>
      [] OTHER -> <<>>

RenderReasons(c) ==
    CASE c = "empty" -> <<Member("reasons", <<"[", "]">>)>>
      [] c = "one" -> <<Member("reasons", <<"[">> \o StrLit("urgent") \o <<"]">>)>>
      [] c = "null" -> <<Member("reasons", <<"null">>)>>
      [] c = "brace" -> <<Member("reasons", <<"[">> \o StrLit("}") \o <<"]">>)>>
      [] OTHER -> <<>>

RenderScam(c) ==
    CASE c = "gift" -> <<Member("scam_type", StrLit("gift card"))>>
      [] c = "null" -> <<Member("scam_type", <<"null">>)>>
      [] OTHER -> <<>>

RenderRaw(c) ==
    CASE c = "prose" -> <<"Sure!", " ", "ok">>
      [] c = "unclosed" -> <<"{">> \o Member("risk_level", StrLit("HIGH"))
      [] c = "not_json" -> <<"{", "x", "}">>
      [] OTHER -> <<>>

\* the answer text a shape stands for
Render(shape) ==
    IF shape.raw # "none" THEN RenderRaw(shape.raw)
    ELSE RenderPre(shape.pre)
         \o <<"{">>
         \o Join(RenderExtra(shape.extra) \o RenderRisk(shape.risk)
                 \o RenderConf(shape.conf) \o RenderReasons(shape.reasons)
                 \o RenderScam(shape.scam), <<",", " ">>)
         \o <<"}">>
         \o RenderPost(shape.post)

\* what the remote call of line 189 can end in
Outcome(kind, status, body, shape) ==
    [kind |-> kind, status |-> status, body |-> body, shape |-> shape]

NoOutcome == Outcome("none", 0, "none", NoShape)

FailureOutcomes ==
    {Outcome("timeout", 0, "none", NoShape),
     Outcome("network_error", 0, "none", NoShape),
     Outcome("http", 500, "none", NoShape),
     Outcome("http", 429, "none", NoShape),
     Outcome("http", 200, "not_json", NoShape),
     Outcome("http", 200, "no_candidates", NoShape),
     Outcome("http", 200, "empty_candidates", NoShape),
     Outcome("http", 200, "null_text", NoShape)}

TextShapes == ObjectShapes \cup RawShapes

NoMessage == [context |-> <<>>, analyze |-> <<>>]

ClsTranscripts == {<<"a">>}
ClsContexts ==
    {None, Some(<<>>), Some(<<" ", "\n">>), Some(<<"a">>),
     Some(<<"a", "\n", "b", "\n", "a">>)}

-----------------------------------------------------------------------------
(* services/llm_analysis.py *)

\* get_default_analysis()
DefaultReason == <<"AI analysis temporarily unavailable (quota exceeded or API error)">>

get_default_analysis ==
    [risk_level |-> VStr(<<"low">>),
     scam_type |-> VNull,
     reasons |-> VList(<<VStr(DefaultReason)>>),
     confidence |-> VNum(0)]

(* mutant: the truncation keeps the first two segments *)
BuildMessageFirstTwo(transcript, context) ==
    LET context_truncated ==
            IF context # None /\ context[1] # <<>>
            THEN SubSeq(Split(context[1], "\n"), 1,
                        IF Len(Split(context[1], "\n")) <= 2
                        THEN Len(Split(context[1], "\n")) ELSE 2)
            ELSE <<>>
        context_short ==
            IF context_truncated # <<>>
            THEN Join(context_truncated, <<"\n">>)
            ELSE <<"No context">>
    IN [context |-> context_short, analyze |-> transcript]

(* mutant: the prompt carries the text the store returned, untruncated *)
BuildMessageUntruncated(transcript, context) ==
    [context |-> IF context # None /\ context[1] # <<>> THEN context[1]
                 ELSE <<"No context">>,
     analyze |-> transcript]

\* lines 166-170: the context and the transcript as the prompt carries them
\* ("Context: {context_short}\n\nAnalyze: {transcript}")
BuildMessage(transcript, context) ==
    LET context_truncated ==
            IF context # None /\ context[1] # <<>>
            THEN LastTwo(Split(context[1], "\n"))
            ELSE <<>>
        context_short ==
            IF context_truncated # <<>>
            THEN Join(context_truncated, <<"\n">>)
            ELSE <<"No context">>
    IN [context |-> context_short, analyze |-> transcript]

\* line 201: re.sub of a fence, an optional "json" and the whitespace after them
RECURSIVE RemoveFences(_)
RemoveFences(s) ==
    IF s = <<>> THEN <<>>
    ELSE IF Head(s) = Fence
         THEN LET rest == Tail(s)
                  afterJson == IF rest # <<>> /\ Head(rest) = "json"
                               THEN Tail(rest) ELSE rest
              IN RemoveFences(LStrip(afterJson))
    ELSE <<Head(s)>> \o RemoveFences(Tail(s))

\* line 202: re.sub of a fence and the whitespace after it
RECURSIVE RemoveBareFences(_)
RemoveBareFences(s) ==
    IF s = <<>> THEN <<>>
    ELSE IF Head(s) = Fence THEN RemoveBareFences(LStrip(Tail(s)))
    ELSE <<Head(s)>> \o RemoveBareFences(Tail(s))

\* lines 201-202
CleanContent(content) == Strip(RemoveBareFences(RemoveFences(content)))

\* (mutant: the span ends at the first closing brace)
RECURSIVE BraceScanFirstClose(_, _, _)
BraceScanFirstClose(s, i, brace_count) ==
    IF i > Len(s) THEN 0
    ELSE IF s[i] = "}" THEN i
    ELSE BraceScanFirstClose(s, i + 1, brace_count)

\* (mutant: the scan skips string literals)
RECURSIVE BraceScanSkipStrings(_, _, _)
BraceScanSkipStrings(s, i, brace_count) ==
    IF i > Len(s) THEN 0
    ELSE IF s[i] = "\""
         THEN LET close == FindFrom(s, "\"", i + 1) IN
              IF close = 0 THEN 0 ELSE BraceScanSkipStrings(s, close + 1, brace_count)
    ELSE IF s[i] = "{" THEN BraceScanSkipStrings(s, i + 1, brace_count + 1)
    ELSE IF s[i] = "}"
         THEN IF brace_count - 1 = 0 THEN i
              ELSE BraceScanSkipStrings(s, i + 1, brace_count - 1)
    ELSE BraceScanSkipStrings(s, i + 1, brace_count)

\* lines 210-219: the position of the brace that brings the count back to
\* zero, scanning from position i; 0 when the text ends first
RECURSIVE BraceScan(_, _, _)
BraceScan(s, i, brace_count) ==
    IF i > Len(s) THEN 0
    ELSE IF s[i] = "{" THEN BraceScan(s, i + 1, brace_count + 1)
    ELSE IF s[i] = "}"
         THEN IF brace_count - 1 = 0 THEN i
              ELSE BraceScan(s, i + 1, brace_count - 1)
    ELSE BraceScan(s, i + 1, brace_count)

\* A step of the function body: an exception it raised ("" for none), whether
\* it executed a return statement, and the value returned.
Raise(e) == [exc |-> e, returned |-> FALSE, val |-> get_default_analysis]
Return(v) == [exc |-> "", returned |-> TRUE, val |-> v]
FallThrough == [exc |-> "", returned |-> FALSE, val |-> get_default_analysis]

\* float(x)
Float(x) ==
    IF x.t = "num" THEN [exc |-> "", val |-> VNum(x.n)]
    ELSE IF x.t = "bool" THEN [exc |-> "", val |-> VNum(IF x.b THEN 10 ELSE 0)]
    ELSE IF x.t = "str"
         THEN IF Len(Strip(x.s)) = 1 /\ Strip(x.s)[1] \in NumberSyms
              THEN [exc |-> "", val |-> VNum(NumValue(Strip(x.s)[1]))]
              ELSE [exc |-> "ValueError", val |-> VNull]
    ELSE [exc |-> "TypeError", val |-> VNull]

\* lines 225-230: the validation/normalization of the parsed object
Normalize(members) ==
    LET risk == DictGet(members, <<"risk_level">>, VStr(<<"low">>))
        conf == Float(DictGet(members, <<"confidence">>, VNum(0)))
    IN IF risk.t # "str" THEN Raise("AttributeError")
       ELSE IF conf.exc # "" THEN Raise(conf.exc)
       ELSE Return([risk_level |-> VStr(Lower(risk.s)),
                    scam_type |-> DictGet(members, <<"scam_type">>, VNull),
                    reasons |-> DictGet(members, <<"reasons">>, VList(<<>>)),
                    confidence |-> conf.val])

\* lines 207-234: the body of the inner try
ExtractAndParse(content_cleaned) ==
    LET start == FindFrom(content_cleaned, "{", 1) IN
    IF start # 0
    THEN LET end == BraceScan(content_cleaned, start, 0) IN
         IF end # 0
         THEN LET json_str == SubSeq(content_cleaned, start, end)
                  analysis == JsonLoads(json_str)
              IN IF ~analysis.ok THEN Raise("JSONDecodeError")
                 ELSE Normalize(analysis.val.members)
         ELSE FallThrough
    ELSE FallThrough

\* lines 205-238: the inner try with its handlers, "except json.JSONDecodeError"
\* and "except Exception": both log and go on
InnerTry(content_cleaned) ==
    LET r == ExtractAndParse(content_cleaned) IN
    IF r.exc # "" THEN FallThrough ELSE r

\* What the remote classifier can do with one request: see Outcome below.  A
\* 200 response with body "text" carries the text Render(outcome.shape); the
\* other bodies carry no text.
\* lines 192-195: response.json() and the path to candidates[0]...text
ExtractContent(outcome) ==
    IF outcome.body = "not_json" THEN [exc |-> "JSONDecodeError", val |-> <<>>]
    ELSE IF outcome.body = "no_candidates" THEN [exc |-> "", val |-> <<>>]
    ELSE IF outcome.body = "empty_candidates" THEN [exc |-> "IndexError", val |-> <<>>]
    ELSE IF outcome.body = "null_text" THEN [exc |-> "TypeError", val |-> <<>>]
    ELSE [exc |-> "", val |-> Render(outcome.shape)]

\* lines 188-240: the body of the outer try from the post on
AfterPost(outcome) ==
    IF outcome.kind = "timeout" THEN Raise("TimeoutException")
    ELSE IF outcome.kind = "network_error" THEN Raise("ConnectError")
    ELSE IF outcome.status = 200
         THEN LET content == ExtractContent(outcome) IN
              IF content.exc # "" THEN Raise(content.exc)
              ELSE InnerTry(CleanContent(content.val))
    ELSE FallThrough

\* (mutant: the outer handler catches only httpx errors)
OuterTryHttpxOnly(outcome) ==
    LET r == AfterPost(outcome) IN
    IF r.exc \in {"TimeoutException", "ConnectError"} THEN FallThrough ELSE r

\* lines 159-243: the outer try with its handler, "except Exception"
OuterTry(outcome) ==
    LET r == AfterPost(outcome) IN
    IF r.exc # "" THEN FallThrough ELSE r

\* analyze_transcript from the response on: the exception that leaves the
\* function ("" for none) and the analysis it returns
AnalyzeResult(outcome) ==
    LET r == OuterTry(outcome) IN
    IF r.exc # "" THEN [raised |-> r.exc, value |-> get_default_analysis]
    ELSE IF r.returned THEN [raised |-> "", value |-> r.val]
    ELSE [raised |-> "", value |-> get_default_analysis]

-----------------------------------------------------------------------------
(* The store driven directly *)

NonBlankTexts == {<<"a">>, <<"b">>}
BlankTexts == {<<>>, <<" ">>}
StoreTexts == NonBlankTexts \cup BlankTexts

\* an operation, its text argument and the size of the store before it
Op(op, text) == [op |-> op, text |-> text, n |-> Len(transcripts)]

NoLast == [op |-> "init", text |-> <<>>, n |-> 0]

\* the parts of the state the store operations never touch
IdleApi ==
    /\ cfg = [elevenlabs |-> TRUE, gemini |-> TRUE]
    /\ reqs = <<>>
    /\ ingested = <<>>

IdleCls ==
    /\ call = [phase |-> "none"]
    /\ ret = [kind |-> "none"]

InitStore ==
    /\ transcripts = <<>>
    /\ timestamps = <<>>
    /\ oldest = <<>>
    /\ nApp = 0
    /\ recent = <<>>
    /\ now = 0
    /\ last = NoLast
    /\ IdleApi
    /\ IdleCls

\* a direct call of add_transcript
AddTranscript(text) ==
    /\ add_transcript(text)
    /\ last' = Op("add_transcript", text)
    /\ UNCHANGED <<now, apiVars, clsVars>>

\* a direct call of clear
Clear ==
    /\ clear
    /\ last' = Op("clear", <<>>)
    /\ UNCHANGED <<now, apiVars, clsVars>>

\* d seconds pass
Tick(d) ==
    /\ now' = now + d
    /\ last' = Op("tick", <<>>)
    /\ UNCHANGED <<storeVars, apiVars, clsVars>>

NextStore ==
    \/ \E text \in StoreTexts : AddTranscript(text)
    \/ Clear
    \/ (now < MaxTicks * CoarseTick /\ Tick(CoarseTick))

SpecStore == InitStore /\ [][NextStore]_vars

-----------------------------------------------------------------------------
(* The store driven directly, a few fragments on a finer clock: fragments
   grow old one by one, and one can stand exactly at the cutoff *)

\* the store holds MaxWindowItems fragments at most
MaxWindowItems == 2
\* the clock advances MaxFineTicks times at most
MaxFineTicks == 3

FineTick == CONTEXT_WINDOW_SECONDS \div 2

NextWindow ==
    \/ \E text \in StoreTexts : size < MaxWindowItems /\ AddTranscript(text)
    \/ Clear
    \/ (now < MaxFineTicks * FineTick /\ Tick(FineTick))

SpecWindow == InitStore /\ [][NextWindow]_vars

-----------------------------------------------------------------------------
(* analyze_transcript driven directly *)

InitClassify ==
    /\ transcripts = <<>>
    /\ timestamps = <<>>
    /\ oldest = <<>>
    /\ nApp = 0
    /\ recent = <<>>
    /\ now = 0
    /\ last = NoLast
    /\ reqs = <<>>
    /\ ingested = <<>>
    /\ cfg \in [elevenlabs : {TRUE}, gemini : BOOLEAN]
    /\ call \in [phase : {"start"}, transcript : ClsTranscripts,
                 context : ClsContexts, outcome : {NoOutcome},
                 message : {NoMessage}]
    /\ ret = [kind |-> "none"]

\* analyze_transcript up to the await of line 189: without an API key it
\* returns the default analysis at once (lines 155-157), otherwise it sends
\* the prompt
ClsSend ==
    /\ call.phase = "start"
    /\ IF ~cfg.gemini
       THEN /\ call' = [call EXCEPT !.phase = "done"]
            /\ ret' = [kind |-> "returned", raised |-> "",
                       value |-> get_default_analysis]
       ELSE /\ call' = [call EXCEPT !.phase = "awaiting",
                                    !.message = BuildMessage(call.transcript, call.context)]
            /\ ret' = ret
    /\ UNCHANGED <<storeVars, now, last, apiVars>>

\* everything the remote classifier can do with one request
ClsOutcomes ==
    FailureOutcomes \cup {Outcome("http", 200, "text", shape) : shape \in TextShapes}

\* what analyze_transcript returns for each of them
ClsAnalysisOf == [o \in ClsOutcomes |-> AnalyzeResult(o)]

\* analyze_transcript from the await on: the remote call ends and the
\* function returns
ClsReceive(outcome) ==
    /\ call.phase = "awaiting"
    /\ call' = [call EXCEPT !.phase = "done", !.outcome = outcome]
    /\ ret' = [kind |-> "returned"] @@ ClsAnalysisOf[outcome]
    /\ UNCHANGED <<storeVars, now, last, apiVars>>

NextClassify ==
    \/ ClsSend
    \/ (call.phase = "awaiting" /\ \E outcome \in ClsOutcomes : ClsReceive(outcome))

SpecClassify == InitClassify /\ [][NextClassify]_vars

-----------------------------------------------------------------------------
(* services/transcription.py *)

\* line 30: payloads shorter than this are not sent for transcription
MIN_AUDIO_CHARS == 500

\* An audio payload: whether base64.b64decode accepts it, and its length in
\* characters.
Audios == [decodable : BOOLEAN, length : {MIN_AUDIO_CHARS - 1, MIN_AUDIO_CHARS}]
NoAudio == [decodable |-> FALSE, length |-> 0]

\* validate_audio_format
validate_audio_format(audio) == audio.decodable

\* (mutant: no minimum size, every decodable chunk is sent)
TranscribeBeginNoThreshold(audio) ==
    IF ~cfg.elevenlabs THEN [await |-> FALSE, result |-> None]
    ELSE IF ~audio.decodable THEN [await |-> FALSE, result |-> None]
    ELSE [await |-> TRUE, result |-> None]

\* transcribe_audio up to the await of line 57: whether the request is sent,
\* and otherwise what the function returns (None, or the empty string)
TranscribeBegin(audio) ==
    IF ~cfg.elevenlabs THEN [await |-> FALSE, result |-> None]
    ELSE IF audio.length < MIN_AUDIO_CHARS THEN [await |-> FALSE, result |-> Some(<<>>)]
    ELSE IF ~audio.decodable THEN [await |-> FALSE, result |-> None]
    ELSE [await |-> TRUE, result |-> None]

\* What the remote transcription can do with one request: answer 200 with a
\* text, answer 200 without a "text" key, answer another status, or raise
\* (network error, timeout).
TranscribeOk(text) == [kind |-> "ok", text |-> text]
TranscribeNoText == [kind |-> "no_text", text |-> <<>>]
TranscribeFailures ==
    {[kind |-> k, text |-> <<>>] : k \in {"http_error", "network_error", "timeout"}}
NoTranscribeOutcome == [kind |-> "none", text |-> <<>>]

\* (mutant: a failed call yields the empty transcript instead of None)
TranscribeResultEmptyOnFailure(outcome) ==
    IF outcome.kind = "ok" THEN Some(outcome.text) ELSE Some(<<>>)

\* transcribe_audio from the await on (lines 64-96): the transcript, or None
TranscribeResult(outcome) ==
    IF outcome.kind = "ok" THEN Some(outcome.text)
    ELSE IF outcome.kind = "no_text" THEN Some(<<>>)
    ELSE None

-----------------------------------------------------------------------------
(* main.py: the handlers.  A handler runs without interruption between two
   awaits of a remote call; each such stretch is one action. *)

NoAnalysis ==
    [risk_level |-> VNull, scam_type |-> VNull, reasons |-> VNull, confidence |-> VNull]

NoArgs == [status |-> 0, transcript |-> <<>>, context |-> None]

\* an HTTP response: the status, the error detail, the transcript and the
\* analysis of the body (the fields a response model lacks stay empty)
Response(status, detail, transcript, analysis) ==
    [status |-> status, detail |-> detail, transcript |-> transcript,
     analysis |-> analysis]

NoResponse == Response(0, "", None, NoAnalysis)

\* a request slot nobody uses.  Of a request in a slot: the endpoint, where
\* the handler stands, the request's inputs (audio, transcript, reqctx), what
\* the remote services did (tout, cout), the store's context the handler read
\* (context), the arguments and the prompt of its analyze_transcript call
\* (cargs, message, sent), whether it changed the store (stored), the texts
\* handed to the store since the last reset when it read the context
\* (fragments) and whether all the stored ones were then inside the window
\* (fresh), its response, whether POST /reset ran while it was waiting
\* for its transcription (stale), and how many requests it has sent to the
\* remote transcription (tcalls) and to the remote classifier (ccalls).
IdleRequest ==
    [kind |-> "none", pc |-> "idle", audio |-> NoAudio, transcript |-> None,
     reqctx |-> None, tout |-> NoTranscribeOutcome, cout |-> NoOutcome,
     context |-> None, cargs |-> NoArgs, message |-> NoMessage,
     sent |-> FALSE, stored |-> FALSE, fragments |-> <<>>, fresh |-> FALSE,
     response |-> NoResponse, stale |-> FALSE, tcalls |-> 0, ccalls |-> 0]

\* the record of a handler step: the request it moved, as the step left it
ApiOp(op, r) == [op |-> op, text |-> <<>>, n |-> Len(transcripts), req |-> r]

\* pydantic: a value for an Optional[str] field, for a List[str] field (the
\* modelled answers hold strings, null, numbers, and lists of strings)
OptionalStrOk(v) == v.t \in {"null", "str"}
ListStrOk(v) == v.t = "list" /\ \A i \in 1..Len(v.items) : v.items[i].t = "str"

\* lines 186-192 and 241-248: building the response model from the analysis
ResponseModelOk(analysis) ==
    /\ analysis.risk_level.t = "str"
    /\ OptionalStrOk(analysis.scam_type)
    /\ ListStrOk(analysis.reasons)

\* lines 180-201 (analyze) and 236-257 (process_and_analyze): from the return
\* of analyze_transcript to the response; an exception, of analyze_transcript
\* or of the response model, becomes a 500
FailureDetail(kind) ==
    IF kind = "analyze" THEN "Analysis failed" ELSE "Processing failed"

FinishAnalysis(kind, result, transcript) ==
    IF result.raised # "" THEN Response(500, FailureDetail(kind), None, NoAnalysis)
    ELSE IF ~ResponseModelOk(result.value)
    THEN Response(500, FailureDetail(kind), None, NoAnalysis)
    ELSE Response(200, "", Some(transcript),
                  IF kind = "analyze" THEN result.value
                  ELSE [result.value EXCEPT !.confidence = VNull])

\* analyze, lines 165-178: the 400 for a blank transcript, or the arguments
\* analyze_transcript is called with
AnalyzeArgs(transcript, reqctx, store_context) ==
    IF IsBlank(transcript) THEN [status |-> 400, transcript |-> transcript, context |-> None]
    ELSE LET context == IF reqctx # None /\ reqctx[1] # <<>> THEN reqctx[1]
                        ELSE store_context
         IN [status |-> 0, transcript |-> transcript,
             context |-> IF context # transcript THEN Some(context) ELSE None]

\* process_and_analyze, lines 233-234: the arguments analyze_transcript is
\* called with
CombinedArgs(transcript, store_context) ==
    [status |-> 0, transcript |-> transcript, context |-> Some(store_context)]

\* analyze_transcript up to its await, inside a handler: without a key the
\* default analysis comes back at once and the handler finishes; otherwise
\* the prompt is sent and the handler waits
CallClassifier(r, args) ==
    IF ~cfg.gemini
    THEN [r EXCEPT !.pc = "done", !.cargs = args,
                   !.response = FinishAnalysis(r.kind,
                                               [raised |-> "", value |-> get_default_analysis],
                                               args.transcript)]
    ELSE [r EXCEPT !.pc = "classifying", !.cargs = args, !.sent = TRUE,
                   !.ccalls = r.ccalls + 1,
                   !.message = BuildMessage(args.transcript, args.context)]

\* what a suspended handler holds on to: its endpoint, its audio, and once
\* the transcription is over the arguments of its analyze_transcript call
InFlight(r) ==
    [IdleRequest EXCEPT !.kind = r.kind, !.pc = r.pc, !.audio = r.audio,
                        !.cargs = r.cargs, !.sent = r.sent, !.stale = r.stale,
                        !.tcalls = r.tcalls, !.ccalls = r.ccalls]

\* the handler of slot i stops at an await or returns: a finished request
\* leaves its slot, and the step records the request as it left it
Settle(i, op, r) ==
    /\ reqs' = [reqs EXCEPT ![i] = IF r.pc = "done" THEN IdleRequest ELSE InFlight(r)]
    /\ last' = ApiOp(op, r)

Fail(r, status, detail) ==
    [r EXCEPT !.pc = "done", !.response = Response(status, detail, None, NoAnalysis)]

\* (mutant: a failed remote transcription is tried once more)
ProcessAudioAfterRetry(i, op, r, result) ==
    IF result = None /\ r.tcalls = 1
    THEN /\ Settle(i, op, [r EXCEPT !.pc = "transcribing", !.tcalls = r.tcalls + 1])
         /\ UNCHANGED <<storeVars, ingested>>
    ELSE IF result = None
    THEN /\ Settle(i, op, Fail(r, 503, "Transcription service unavailable"))
         /\ UNCHANGED <<storeVars, ingested>>
    ELSE /\ add_transcript(result[1])
         /\ ingested' = Append(ingested, result[1])
         /\ Settle(i, op, [r EXCEPT !.pc = "done", !.transcript = result,
                                    !.stored = (storeVars' # storeVars),
                                    !.response = Response(200, "", result, NoAnalysis)])

\* process_audio, lines 124-139, once transcribe_audio has returned
ProcessAudioAfter(i, op, r, result) ==
    IF result = None
    THEN /\ Settle(i, op, Fail(r, 503, "Transcription service unavailable"))
         /\ UNCHANGED <<storeVars, ingested>>
    ELSE /\ add_transcript(result[1])
         /\ ingested' = Append(ingested, result[1])
         /\ Settle(i, op, [r EXCEPT !.pc = "done", !.transcript = result,
                                    !.stored = (storeVars' # storeVars),
                                    !.response = Response(200, "", result, NoAnalysis)])

\* (mutant: the context is read before the transcript is stored)
CombinedAfterSnapshotFirst(i, op, r, result) ==
    IF result = None
    THEN /\ Settle(i, op, Fail(r, 503, "Transcription failed"))
         /\ UNCHANGED <<storeVars, ingested>>
    ELSE /\ add_transcript(result[1])
         /\ ingested' = Append(ingested, result[1])
         /\ LET context == GetContext(transcripts, timestamps, now)
                r2 == [r EXCEPT !.transcript = result,
                                !.stored = (storeVars' # storeVars),
                                !.context = Some(context),
                                !.fragments = ingested',
                                !.fresh = (\A k \in 1..Len(timestamps') :
                                              timestamps'[k] >= now - CONTEXT_WINDOW_SECONDS)]
            IN Settle(i, op, CallClassifier(r2, CombinedArgs(result[1], context)))

\* (mutant: a failed remote transcription is tried again, without end)
CombinedAfterRetryForever(i, op, r, result) ==
    IF result = None /\ r.tcalls = 1
    THEN /\ Settle(i, op, [r EXCEPT !.pc = "transcribing"])
         /\ UNCHANGED <<storeVars, ingested>>
    ELSE IF result = None
    THEN /\ Settle(i, op, Fail(r, 503, "Transcription failed"))
         /\ UNCHANGED <<storeVars, ingested>>
    ELSE /\ add_transcript(result[1])
         /\ ingested' = Append(ingested, result[1])
         /\ LET context == GetContext(transcripts', timestamps', now)
                r2 == [r EXCEPT !.transcript = result,
                                !.stored = (storeVars' # storeVars),
                                !.context = Some(context),
                                !.fragments = ingested',
                                !.fresh = (\A k \in 1..Len(timestamps') :
                                              timestamps'[k] >= now - CONTEXT_WINDOW_SECONDS)]
            IN Settle(i, op, CallClassifier(r2, CombinedArgs(result[1], context)))

\* process_and_analyze, lines 226-234, once transcribe_audio has returned
CombinedAfter(i, op, r, result) ==
    IF result = None
    THEN /\ Settle(i, op, Fail(r, 503, "Transcription failed"))
         /\ UNCHANGED <<storeVars, ingested>>
    ELSE /\ add_transcript(result[1])
         /\ ingested' = Append(ingested, result[1])
         /\ LET context == GetContext(transcripts', timestamps', now)
                r2 == [r EXCEPT !.transcript = result,
                                !.stored = (storeVars' # storeVars),
                                !.context = Some(context),
                                !.fragments = ingested',
                                !.fresh = (\A k \in 1..Len(timestamps') :
                                              timestamps'[k] >= now - CONTEXT_WINDOW_SECONDS)]
            IN Settle(i, op, CallClassifier(r2, CombinedArgs(result[1], context)))

Free(i) == reqs[i].pc = "idle"

\* POST /process-audio arrives: lines 111-122, and on to the end when
\* transcribe_audio returns without a remote call
ProcessAudioStart(i, audio) ==
    /\ Free(i)
    /\ UNCHANGED <<now, cfg, clsVars>>
    /\ LET r == [IdleRequest EXCEPT !.kind = "process_audio", !.audio = audio]
           op == "process_audio"
       IN IF ~validate_audio_format(audio)
          THEN /\ Settle(i, op, Fail(r, 400, "Invalid audio data format"))
               /\ UNCHANGED <<storeVars, ingested>>
          ELSE IF TranscribeBegin(audio).await
          THEN /\ Settle(i, op, [r EXCEPT !.pc = "transcribing", !.tcalls = r.tcalls + 1])
               /\ UNCHANGED <<storeVars, ingested>>
          ELSE ProcessAudioAfter(i, op, r, TranscribeBegin(audio).result)

\* POST /process-and-analyze arrives: lines 218-225, and on
CombinedStart(i, audio) ==
    /\ Free(i)
    /\ UNCHANGED <<now, cfg, clsVars>>
    /\ LET r == [IdleRequest EXCEPT !.kind = "process_and_analyze", !.audio = audio]
           op == "process_and_analyze"
       IN IF ~validate_audio_format(audio)
          THEN /\ Settle(i, op, Fail(r, 400, "Invalid audio format"))
               /\ UNCHANGED <<storeVars, ingested>>
          ELSE IF TranscribeBegin(audio).await
          THEN /\ Settle(i, op, [r EXCEPT !.pc = "transcribing", !.tcalls = r.tcalls + 1])
               /\ UNCHANGED <<storeVars, ingested>>
          ELSE CombinedAfter(i, op, r, TranscribeBegin(audio).result)

\* the remote transcription ends: the handler resumes
TranscribeReturns(i, outcome) ==
    /\ reqs[i].pc = "transcribing"
    /\ UNCHANGED <<now, cfg, clsVars>>
    /\ LET r == [reqs[i] EXCEPT !.tout = outcome] IN
       IF r.kind = "process_audio"
       THEN ProcessAudioAfter(i, "transcribed", r, TranscribeResult(outcome))
       ELSE CombinedAfter(i, "transcribed", r, TranscribeResult(outcome))

\* (mutant: POST /analyze stores its transcript as the audio endpoints do)
AnalyzeStartStores(i, transcript, reqctx) ==
    /\ Free(i)
    /\ UNCHANGED <<now, cfg, clsVars, ingested>>
    /\ add_transcript(transcript)
    /\ LET r == [IdleRequest EXCEPT !.kind = "analyze", !.transcript = Some(transcript),
                                    !.reqctx = reqctx]
           args == AnalyzeArgs(transcript, reqctx, get_context)
       IN IF args.status = 400
          THEN Settle(i, "analyze",
                      [Fail(r, 400, "Transcript cannot be empty") EXCEPT !.cargs = args])
          ELSE Settle(i, "analyze", CallClassifier(r, args))

\* POST /analyze arrives: lines 162-178
AnalyzeStart(i, transcript, reqctx) ==
    /\ Free(i)
    /\ UNCHANGED <<now, cfg, clsVars, storeVars, ingested>>
    /\ LET r == [IdleRequest EXCEPT !.kind = "analyze", !.transcript = Some(transcript),
                                    !.reqctx = reqctx]
           args == AnalyzeArgs(transcript, reqctx, get_context)
       IN IF args.status = 400
          THEN Settle(i, "analyze",
                      [Fail(r, 400, "Transcript cannot be empty") EXCEPT !.cargs = args])
          ELSE Settle(i, "analyze", CallClassifier(r, args))

\* The answers of the remote classifier the handlers are driven with: a
\* timeout, a well-formed object, and an object whose "reasons" is null
GoodShape ==
    [raw |-> "none", pre |-> "fence", extra |-> "absent", risk |-> "HIGH",
     conf |-> "0.9", reasons |-> "one", scam |-> "gift", post |-> "fence"]

ApiClassifierOutcomes ==
    {Outcome("timeout", 0, "none", NoShape),
     Outcome("http", 200, "text", GoodShape),
     Outcome("http", 200, "text", [GoodShape EXCEPT !.reasons = "null"])}

\* what analyze_transcript returns for each of them
ApiAnalysisOf == [o \in ApiClassifierOutcomes |-> AnalyzeResult(o)]

\* the remote classifier ends: analyze_transcript returns and the handler
\* builds its response
ClassifyReturns(i, outcome) ==
    /\ reqs[i].pc = "classifying"
    /\ UNCHANGED <<now, cfg, clsVars, storeVars, ingested>>
    /\ Settle(i, "classified",
              [reqs[i] EXCEPT !.pc = "done", !.cout = outcome,
                              !.response = FinishAnalysis(reqs[i].kind, ApiAnalysisOf[outcome],
                                                          reqs[i].cargs.transcript)])

\* line 267: what POST /reset answers
ResetAck == Response(200, "Context reset for new call", None, NoAnalysis)

\* POST /reset: lines 265-267
ResetSession ==
    /\ clear
    /\ ingested' = <<>>
    /\ last' = ApiOp("reset_session", [IdleRequest EXCEPT !.response = ResetAck])
    /\ reqs' = [i \in DOMAIN reqs |->
                  IF reqs[i].pc = "transcribing" THEN [reqs[i] EXCEPT !.stale = TRUE]
                  ELSE reqs[i]]
    /\ UNCHANGED <<now, cfg, clsVars>>

\* what GET /context returns: lines 275-279
ContextResponse ==
    [context_text |-> get_context, transcript_count |-> size,
     transcripts |-> get_all_transcripts]

\* GET /context
GetContextRequest ==
    UNCHANGED vars

\* GET /health: lines 91-95
HealthCheck ==
    UNCHANGED vars

\* the clock advances
ApiTick(d) ==
    /\ now' = now + d
    /\ last' = ApiOp("tick", IdleRequest)
    /\ UNCHANGED <<storeVars, apiVars, clsVars>>

-----------------------------------------------------------------------------
(* The handlers driven by clients and by the two remote services *)

\* at most MaxReq requests are in flight at a time
MaxReq == 2
\* the clients send audio for at most MaxFragments fragments between resets
MaxFragments == 2
\* the clock advances MaxApiTicks times at most
MaxApiTicks == 1

ReqIds == 1..MaxReq

ApiTexts == {<<"a">>, <<"b", "\n">>}
AnalyzeTexts == {<<"a">>, <<" ">>}
ApiContexts == {None, Some(<<"a">>)}
ApiTranscribeOutcomes ==
    {TranscribeOk(t) : t \in ApiTexts} \cup {TranscribeNoText} \cup TranscribeFailures

InitApi ==
    /\ transcripts = <<>>
    /\ timestamps = <<>>
    /\ oldest = <<>>
    /\ nApp = 0
    /\ recent = <<>>
    /\ now = 0
    /\ last = ApiOp("init", IdleRequest)
    /\ cfg \in [elevenlabs : BOOLEAN, gemini : BOOLEAN]
    /\ reqs = [i \in ReqIds |-> IdleRequest]
    /\ ingested = <<>>
    /\ IdleCls

\* the fragments handed to the store or on their way to it
Pending ==
    Len(ingested)
    + Cardinality({i \in ReqIds : reqs[i].pc = "transcribing"})

NextApi ==
    \/ \E i \in ReqIds, audio \in Audios :
          Pending < MaxFragments /\ ProcessAudioStart(i, audio)
    \/ \E i \in ReqIds, audio \in Audios :
          Pending < MaxFragments /\ CombinedStart(i, audio)
    \/ \E i \in ReqIds : reqs[i].pc = "transcribing"
          /\ \E outcome \in ApiTranscribeOutcomes : TranscribeReturns(i, outcome)
    \/ \E i \in ReqIds, transcript \in AnalyzeTexts, reqctx \in ApiContexts :
          AnalyzeStart(i, transcript, reqctx)
    \/ \E i \in ReqIds : reqs[i].pc = "classifying"
          /\ \E outcome \in ApiClassifierOutcomes : ClassifyReturns(i, outcome)
    \/ ResetSession
    \/ GetContextRequest
    \/ HealthCheck
    \/ (now < MaxApiTicks * CoarseTick /\ ApiTick(CoarseTick))

SpecApi == InitApi /\ [][NextApi]_vars

\* The handlers with the remote services' answers cut down to one of each
\* kind: a transcript, a 200 without text and a timeout for the transcription;
\* a timeout and a well-formed object for the classifier.
LiveTranscribeOutcomes ==
    {TranscribeOk(<<"a">>), TranscribeNoText, [kind |-> "timeout", text |-> <<>>]}
LiveClassifierOutcomes ==
    {Outcome("timeout", 0, "none", NoShape), Outcome("http", 200, "text", GoodShape)}

NextLive ==
    \/ \E i \in ReqIds, audio \in Audios :
          Pending < MaxFragments /\ ProcessAudioStart(i, audio)
    \/ \E i \in ReqIds, audio \in Audios :
          Pending < MaxFragments /\ CombinedStart(i, audio)
    \/ \E i \in ReqIds : reqs[i].pc = "transcribing"
          /\ \E outcome \in LiveTranscribeOutcomes : TranscribeReturns(i, outcome)
    \/ \E i \in ReqIds, reqctx \in ApiContexts : AnalyzeStart(i, <<"a">>, reqctx)
    \/ \E i \in ReqIds : reqs[i].pc = "classifying"
          /\ \E outcome \in LiveClassifierOutcomes : ClassifyReturns(i, outcome)
    \/ ResetSession

\* Both remote calls are made with timeout=30.0 (transcription.py line 56,
\* llm_analysis.py line 188): a call that is awaited ends, with an answer or
\* with an exception, and the event loop then resumes the handler.
RemoteCallsEnd ==
    \A i \in ReqIds :
        /\ WF_vars(\E outcome \in LiveTranscribeOutcomes : TranscribeReturns(i, outcome))
        /\ WF_vars(\E outcome \in LiveClassifierOutcomes : ClassifyReturns(i, outcome))

SpecApiFair == InitApi /\ [][NextLive]_vars /\ RemoteCallsEnd

-----------------------------------------------------------------------------
(* The store filled directly and emptied through POST /reset *)

NextReset ==
    \/ \E text \in StoreTexts : AddTranscript(text)
    \/ ResetSession
    \/ (now < MaxTicks * CoarseTick /\ Tick(CoarseTick))

SpecReset == InitStore /\ [][NextReset]_vars

-----------------------------------------------------------------------------
(* Claims about the store *)

\* C1: after any sequence of add_transcript and clear calls the store holds
\* between 0 and MAX_CONTEXT_ITEMS fragments, and once more than
\* MAX_CONTEXT_ITEMS non-blank fragments were appended since the last clear,
\* the first of them is no longer among the stored fragments.
C1_SizeBoundedOldestEvicted ==
    /\ size \in 0..MAX_CONTEXT_ITEMS
    /\ Len(timestamps) \in 0..MAX_CONTEXT_ITEMS
    /\ nApp > MAX_CONTEXT_ITEMS => \A i \in 1..Len(oldest) : ~oldest[i]

\* the store is full and has evicted: an eleventh fragment was appended
C1_Witness ==
    /\ nApp > MAX_CONTEXT_ITEMS
    /\ size = MAX_CONTEXT_ITEMS
    /\ last.op = "add_transcript" /\ ~IsBlank(last.text)


\* C11: get_all_transcripts is, in order, the last min(n, MAX_CONTEXT_ITEMS)
\* non-blank texts appended since the most recent clear (n such appends):
\* the oldest is evicted first, insertion order is kept, and the stored
\* timestamps never decrease.
C11_FifoOfNonBlankAppends ==
    /\ get_all_transcripts = recent
    /\ size = (IF nApp < MAX_CONTEXT_ITEMS THEN nApp ELSE MAX_CONTEXT_ITEMS)
    /\ Len(timestamps) = size
    /\ \A i \in 1..Len(timestamps) : \A j \in i..Len(timestamps) :
          timestamps[i] <= timestamps[j]

\* a full store has evicted, holds both texts, and its fragments were
\* appended at different times
C11_Witness ==
    /\ nApp > MAX_CONTEXT_ITEMS
    /\ last.op = "add_transcript"
    /\ transcripts[1] # transcripts[size]
    /\ timestamps[1] < timestamps[size]

\* C24: in every state the text of get_context is the single-space join of a
\* contiguous suffix of get_all_transcripts, namely of the fragments stamped
\* within the last CONTEXT_WINDOW_SECONDS seconds; older fragments are
\* skipped and stay in the store (so a store that is not empty can have an
\* empty context), and the context holds no fragment that is not stored.
C24_ContextIsSuffixJoin ==
    \E k \in 0..size :
        /\ \A i \in 1..k : timestamps[i] < now - CONTEXT_WINDOW_SECONDS
        /\ \A i \in (k + 1)..size : timestamps[i] >= now - CONTEXT_WINDOW_SECONDS
        /\ get_context = Join(SubSeq(get_all_transcripts, k + 1, size), <<" ">>)

\* a full store whose fragments have all grown old: ten transcripts, no
\* context
C24_Witness ==
    /\ size = MAX_CONTEXT_ITEMS
    /\ get_context = <<>>
    /\ last.op = "tick"

\* C6: add_transcript with an empty or whitespace-only text changes neither
\* the fragments nor the timestamps (nothing is added, nothing is evicted).
C6_BlankAppendIsNoOp ==
    [][(last'.op = "add_transcript" /\ Strip(last'.text) = <<>>)
         => UNCHANGED <<transcripts, timestamps>>]_vars

\* a whitespace-only text was just appended to a full store
C6_Witness ==
    /\ last.op = "add_transcript"
    /\ last.text = <<" ">>
    /\ size = MAX_CONTEXT_ITEMS
    /\ nApp > MAX_CONTEXT_ITEMS

\* C5: when every stored fragment lies inside the time window (none is
\* older than the window's length), get_context returns the texts of all the
\* stored fragments joined by single spaces in insertion order.
C5_FullWindowIsSpaceJoin ==
    (\A i \in 1..Len(timestamps) : timestamps[i] >= now - CONTEXT_WINDOW_SECONDS)
        => get_context = Join(get_all_transcripts, <<" ">>)

\* two different fragments are stored, the older one exactly one window ago
C5_Witness ==
    /\ size = 2
    /\ transcripts[1] # transcripts[2]
    /\ timestamps[1] = now - CONTEXT_WINDOW_SECONDS
    /\ timestamps[2] > timestamps[1]
    /\ get_context = transcripts[1] \o <<" ">> \o transcripts[2]

-----------------------------------------------------------------------------
(* Claims about the handlers *)

\* the step that has just been taken made a request return
Returned == last.req.pc = "done"

EmptyContextResponse ==
    [context_text |-> <<>>, transcript_count |-> 0, transcripts |-> <<>>]

\* C4: once POST /reset has completed, GET /context answers with no context
\* text, a transcript count of 0 and an empty list of transcripts, whatever
\* had been appended before.
C4_ResetEmptiesContext ==
    last.op = "reset_session" => ContextResponse = EmptyContextResponse

\* a reset of a store that held fragments
C4_Witness ==
    /\ last.op = "reset_session"
    /\ last.n > 0
    /\ ContextResponse.transcript_count = 0

\* C3, as claimed: POST /analyze answers 400 exactly when the transcript is
\* blank, and for a transcript that is not blank, as for a transcribed chunk
\* of POST /process-and-analyze, the request returns a verdict whatever the
\* classifier did.
C3_AsClaimed ==
    Returned =>
        /\ last.req.kind = "analyze" =>
              /\ last.req.response.status = 400 <=> IsBlank(last.req.cargs.transcript)
              /\ ~IsBlank(last.req.cargs.transcript) => last.req.response.status = 200
        /\ (last.req.kind = "process_and_analyze" /\ last.req.cargs # NoArgs) =>
              last.req.response.status = 200

\* of the texts handed to the store, those that are not blank
NonBlank(fragments) == SelectSeq(fragments, LAMBDA f : ~IsBlank(f))

RECURSIVE Newlines(_)
Newlines(text) ==
    IF text = <<>> THEN 0
    ELSE (IF Head(text) = "\n" THEN 1 ELSE 0) + Newlines(Tail(text))

\* the step that has just been taken is the one in which POST
\* /process-and-analyze stored its transcript, read the context and sent the
\* prompt, with every stored fragment inside the window and none evicted
SentInWindow ==
    /\ last.req.kind = "process_and_analyze"
    /\ last.req.transcript # None
    /\ last.req.sent
    /\ last.req.fresh
    /\ Len(last.req.fragments) <= MAX_CONTEXT_ITEMS

ExpectedContext(fragments) ==
    LET joined == Join(NonBlank(fragments), <<" ">>) IN
    IF joined = <<>> THEN <<"No context">>
    ELSE Join(LastTwo(Split(joined, "\n")), <<"\n">>)

AudioKinds == {"process_audio", "process_and_analyze"}

\* C8: POST /process-audio and POST /process-and-analyze answer 400 when the
\* audio does not decode and 503 when the remote transcription fails (another
\* status than 200, a network error, a timeout); in both cases the step
\* leaves the store as it was and the classifier is not called.
C8_AudioFailuresLeaveNoTrace ==
    [][(/\ last'.req.pc = "done"
        /\ last'.req.kind \in AudioKinds
        /\ (~last'.req.audio.decodable \/ last'.req.tout \in TranscribeFailures))
          => /\ last'.req.response.status =
                   (IF ~last'.req.audio.decodable THEN 400 ELSE 503)
             /\ last'.req.response.transcript = None
             /\ UNCHANGED <<transcripts, timestamps>>
             /\ ~last'.req.sent
             /\ \A i \in ReqIds : reqs'[i].pc # "classifying" \/ reqs'[i] = reqs[i]]_vars

\* a transcription that timed out was answered with a 503, the store holding
\* a fragment
C8_Witness ==
    /\ Returned
    /\ last.req.kind = "process_and_analyze"
    /\ last.req.tout.kind = "timeout"
    /\ last.req.response.status = 503
    /\ last.req.response.detail = "Transcription failed"
    /\ size > 0

\* a handler step on the arrival of a chunk that decodes and is shorter than
\* the minimum
ShortAudioArrives ==
    /\ last'.op \in AudioKinds
    /\ validate_audio_format(last'.req.audio)
    /\ last'.req.audio.length < MIN_AUDIO_CHARS

\* no remote transcription for the request of the step, and the store as it was
SkippedRemote ==
    /\ last'.req.pc # "transcribing"
    /\ last'.req.tout = NoTranscribeOutcome
    /\ UNCHANGED <<transcripts, timestamps>>

NoShortAudioSent ==
    \A i \in ReqIds :
        reqs[i].pc = "transcribing" => reqs[i].audio.length >= MIN_AUDIO_CHARS

\* C15 (as amended): a chunk of fewer than 500 base64 characters is never
\* sent to the remote transcription and leaves the store as it was; when the
\* ElevenLabs key is configured transcribe_audio returns the empty transcript
\* as a success (POST /process-audio answers 200 with it), and when the key
\* is not configured it returns None and the request is answered 503.
C15_ShortAudioSkipsRemote ==
    /\ []NoShortAudioSent
    /\ [][ShortAudioArrives
            => /\ SkippedRemote
               /\ cfg.elevenlabs
                    => /\ last'.req.transcript = Some(<<>>)
                       /\ last'.req.kind = "process_audio"
                            => last'.req.response = Response(200, "", Some(<<>>), NoAnalysis)
               /\ ~cfg.elevenlabs
                    => /\ last'.req.transcript = None
                       /\ last'.req.response.status = 503]_vars

\* C15 (as claimed): for every chunk of fewer than 500 base64 characters, in
\* every configuration, transcribe_audio returns the empty transcript as a
\* success, the remote transcription is not invoked and the append leaves the
\* store as it was.
C15_AsClaimed ==
    [][ShortAudioArrives
         => /\ SkippedRemote
            /\ last'.req.transcript = Some(<<>>)
            /\ last'.req.response.status # 503]_vars

\* a short chunk was answered 200 with the empty transcript, the store
\* holding a fragment
C15_Witness ==
    /\ Returned
    /\ last.op = "process_audio"
    /\ last.req.audio.length < MIN_AUDIO_CHARS
    /\ last.req.response = Response(200, "", Some(<<>>), NoAnalysis)
    /\ ~last.req.stored
    /\ size > 0

\* the stored fragments with their timestamps, position by position
Paired(trs, tss) ==
    [k \in 1..(IF Len(trs) <= Len(tss) THEN Len(trs) ELSE Len(tss)) |-> <<trs[k], tss[k]>>]

StoreWellFormed ==
    /\ Len(transcripts) = Len(timestamps)
    /\ get_all_transcripts = recent
    /\ \A i \in 1..Len(timestamps) : \A j \in i..Len(timestamps) :
          timestamps[i] <= timestamps[j]
    /\ \A i \in 1..Len(timestamps) : timestamps[i] <= now

\* C16: under every interleaving of POST /process-audio, POST
\* /process-and-analyze, POST /reset and GET /context (handlers suspend only
\* at their remote calls) each change of the store is atomic: in every state
\* transcripts and timestamps have the same length, every step that changes
\* the store either empties both or appends one fragment together with the
\* time of the step (dropping the oldest pair of a full store), and the
\* fragments stay in arrival order with non-decreasing timestamps.
C16_StoreMutationsAtomic ==
    /\ []StoreWellFormed
    /\ [][<<transcripts, timestamps>>' # <<transcripts, timestamps>>
            => /\ Len(transcripts') = Len(timestamps')
               /\ IF last'.op = "reset_session"
                  THEN transcripts' = <<>>
                  ELSE /\ last'.req.kind \in AudioKinds
                       /\ last'.req.stored
                       /\ Paired(transcripts', timestamps')
                            = LastN(Append(Paired(transcripts, timestamps),
                                           <<last'.req.transcript[1], now>>),
                                    MAX_CONTEXT_ITEMS)]_vars

\* a fragment was appended, later than the one before it, while another
\* handler was waiting for the classifier
C16_Witness ==
    /\ last.op = "transcribed"
    /\ last.req.stored
    /\ size = 2
    /\ timestamps[1] < timestamps[2]
    /\ \E i \in ReqIds : reqs[i].pc = "classifying" /\ reqs[i].kind = "process_and_analyze"
    /\ \E i \in ReqIds : reqs[i].pc = "idle"

\* C17 (as claimed): POST /reset returns the session to idle: afterwards the
\* store stays empty until a request submitted after the reset appends its
\* transcript; no fragment of a request that was waiting for its
\* transcription when the reset ran gets into the store or into a later
\* classification context.
C17_AsClaimed ==
    [][/\ transcripts' # transcripts /\ last'.op # "reset_session"
            => ~last'.req.stale
       /\ (last'.req.sent /\ last'.op \in AudioKinds \cup {"transcribed"})
            => ~last'.req.stale]_vars

\* the response of a handler whose classifier call failed: the default
\* analysis, without the confidence where the response model has none
FallbackResponse(r) ==
    Response(200, "", Some(r.cargs.transcript),
             IF r.kind = "analyze" THEN get_default_analysis
             ELSE [get_default_analysis EXCEPT !.confidence = VNull])

\* C20: no retries: a request of POST /process-audio, POST /analyze or POST
\* /process-and-analyze sends at most one request to the remote transcription
\* and at most one to the remote classifier; when a remote call fails the
\* handler finishes in the same step, with a 503 for the transcription and
\* with the default analysis for the classifier.
C20_NoRetries ==
    /\ [](/\ last.req.tcalls <= 1 /\ last.req.ccalls <= 1
          /\ \A i \in ReqIds : reqs[i].tcalls <= 1 /\ reqs[i].ccalls <= 1)
    /\ [][/\ (last'.op = "transcribed" /\ last'.req.tout \in TranscribeFailures)
              => /\ last'.req.pc = "done"
                 /\ last'.req.response.status = 503
                 /\ last'.req.ccalls = 0
         /\ (last'.op = "classified" /\ last'.req.cout \in FailureOutcomes)
              => /\ last'.req.pc = "done"
                 /\ last'.req.response = FallbackResponse(last'.req)]_vars

\* a request of POST /process-and-analyze has called the transcription once
\* and the classifier once, the classifier timed out and the default analysis
\* was returned
C20_Witness ==
    /\ Returned
    /\ last.op = "classified"
    /\ last.req.kind = "process_and_analyze"
    /\ last.req.tcalls = 1 /\ last.req.ccalls = 1
    /\ last.req.cout.kind = "timeout"
    /\ last.req.response.analysis.reasons = VList(<<VStr(DefaultReason)>>)

\* a handler that waits for a remote call keeps no other request's audio from
\* being taken up
OthersNotBlocked ==
    \A i \in ReqIds : \A j \in ReqIds \ {i} :
        (reqs[i].pc \in {"transcribing", "classifying"} /\ Free(j))
            => ENABLED ProcessAudioStart(j, [decodable |-> TRUE, length |-> MIN_AUDIO_CHARS])

\* C21: every request terminates: as each remote call ends (with an answer,
\* an error or its timeout), every request of POST /process-audio, POST
\* /analyze and POST /process-and-analyze eventually returns a response and
\* leaves its slot, and a handler suspended on a remote call does not keep
\* another request from being processed.
C21_EveryRequestReturns ==
    /\ \A i \in ReqIds : (reqs[i].pc # "idle") ~> (reqs[i].pc = "idle")
    /\ []OthersNotBlocked

\* a request of POST /analyze was answered while a request of POST
\* /process-and-analyze was waiting for its transcription
C21_Witness ==
    /\ Returned
    /\ last.op = "analyze"
    /\ last.req.response.status = 200
    /\ \E i \in ReqIds : reqs[i].pc = "transcribing" /\ reqs[i].kind = "process_and_analyze"

\* C22: clear / POST /reset is idempotent and always succeeds: from every
\* store (empty, partly filled, full) a reset leaves the store empty and is
\* acknowledged, and a reset that follows a reset leaves the state as the
\* first left it and is acknowledged in the same way.
C22_ResetIdempotent ==
    [][last'.op = "reset_session"
         => /\ transcripts' = <<>> /\ timestamps' = <<>>
            /\ last'.req.response = ResetAck
            /\ last.op = "reset_session"
                 => /\ storeVars' = storeVars
                    /\ <<now, cfg, reqs, ingested>>' = <<now, cfg, reqs, ingested>>
                    /\ last'.req.response = last.req.response]_vars

\* a full store has been reset
C22_Witness ==
    /\ last.op = "reset_session"
    /\ last.n = MAX_CONTEXT_ITEMS
    /\ size = 0
    /\ last.req.response.status = 200

\* the steps of the handlers that may change the store: POST /reset, and the
\* arrival or the resumption after the transcription of POST /process-audio
\* and POST /process-and-analyze
MutatingStep ==
    \/ last'.op = "reset_session"
    \/ last'.op \in AudioKinds \cup {"transcribed"} /\ last'.req.kind \in AudioKinds

\* C23: the read-only operations leave the store as it was: GET /context
\* (get_context, get_all_transcripts, len), GET /health and POST /analyze,
\* answered or failed, never add, remove or reorder fragments or timestamps;
\* only POST /process-audio, POST /process-and-analyze and POST /reset change
\* the store.
C23_ReadOnlyFrame ==
    [][/\ <<transcripts, timestamps>>' # <<transcripts, timestamps>> => MutatingStep
       /\ last'.req.kind = "analyze" => UNCHANGED <<transcripts, timestamps>>
       /\ last'.op = "classified" => UNCHANGED <<transcripts, timestamps>>]_vars

\* POST /analyze was answered with an analysis, the store holding two
\* fragments
C23_Witness ==
    /\ Returned
    /\ last.op = "classified"
    /\ last.req.kind = "analyze"
    /\ last.req.response.status = 200
    /\ size = 2

\* the step in which POST /process-and-analyze, its audio validated and
\* transcribed, stores the transcript, reads the context and calls
\* analyze_transcript
CombinedStoresAndCalls ==
    /\ last'.req.kind = "process_and_analyze"
    /\ last'.op \in {"process_and_analyze", "transcribed"}
    /\ last'.req.transcript # None

\* C25: within one request of POST /process-and-analyze the steps come in the
\* order validate, transcribe, append, read the context, call the classifier,
\* and nothing runs between the append and the reading of the context: the
\* context handed to analyze_transcript is the store's windowed text right
\* after the request's own append; while the classifier call is in flight,
\* appends and resets of other requests change neither what was sent nor the
\* transcript of the verdict.
C25_AppendThenSnapshotThenClassify ==
    [][/\ CombinedStoresAndCalls
            => /\ validate_audio_format(last'.req.audio)
               /\ last'.req.tcalls = 0 => last'.req.tout = NoTranscribeOutcome
               /\ ~IsBlank(last'.req.transcript[1])
                    => /\ transcripts' # <<>>
                       /\ transcripts'[Len(transcripts')] = last'.req.transcript[1]
                       /\ timestamps'[Len(timestamps')] = now
               /\ last'.req.cargs =
                    [status |-> 0, transcript |-> last'.req.transcript[1],
                     context |-> Some(GetContext(transcripts', timestamps', now'))]
               /\ cfg.gemini
                    => /\ last'.req.pc = "classifying" /\ last'.req.ccalls = 1
                       /\ last'.req.message
                            = BuildMessage(last'.req.cargs.transcript, last'.req.cargs.context)
       /\ \A i \in ReqIds :
            (reqs[i].pc = "classifying" /\ reqs'[i].pc = "classifying")
                => reqs'[i] = reqs[i]
       /\ (last'.op = "classified" /\ last'.req.kind = "process_and_analyze")
            => /\ \E i \in ReqIds :
                    /\ reqs[i].pc = "classifying" /\ reqs'[i].pc = "idle"
                    /\ last'.req.cargs = reqs[i].cargs
               /\ last'.req.response.status = 200
                    => last'.req.response.transcript = Some(last'.req.cargs.transcript)]_vars

\* a request of POST /process-and-analyze that had stored and sent "a" got
\* its verdict for "a" after a reset had emptied the store
C25_Witness ==
    /\ Returned
    /\ last.op = "classified"
    /\ last.req.kind = "process_and_analyze"
    /\ last.req.cargs.transcript = <<"a">>
    /\ last.req.response.status = 200
    /\ last.req.response.transcript = Some(<<"a">>)
    /\ size = 0

\* C9, as claimed: POST /process-and-analyze on a transcribed chunk does what
\* POST /analyze does on the transcript without an explicit context, once
\* POST /process-audio has stored it: the same outcome and the same prompt.
C9_AsClaimed ==
    (/\ last.req.kind = "process_and_analyze"
     /\ last.req.transcript # None)
      => LET args == AnalyzeArgs(last.req.transcript[1], None, last.req.context[1]) IN
         /\ args.status = 0
         /\ BuildMessage(args.transcript, args.context)
               = BuildMessage(last.req.cargs.transcript, last.req.cargs.context)

-----------------------------------------------------------------------------
(* Claims about analyze_transcript *)

\* the call has returned
ClsDone == call.phase = "done" /\ ret.kind = "returned"

\* C2: analyze_transcript never raises, and it returns exactly the default
\* analysis when the API key is missing and for every remote failure: a
\* timeout, a network error, a status other than 200, a 200 response that is
\* no JSON, that has no candidates or an empty candidates list, or no text.
C2_FailureGivesDefault ==
    ClsDone =>
        /\ ret.raised = ""
        /\ (~cfg.gemini \/ call.outcome \in FailureOutcomes)
              => ret.value = get_default_analysis

\* a 200 response with an empty candidates list (an IndexError inside the
\* function) was answered with the default analysis
C2_Witness ==
    /\ ClsDone
    /\ cfg.gemini
    /\ call.outcome.body = "empty_candidates"
    /\ ret.value.reasons = VList(<<VStr(DefaultReason)>>)

\* the analysis a well-formed object of the given shape stands for
ExpectedAnalysis(shape) ==
    [risk_level |-> VStr(IF shape.risk = "HIGH" THEN <<"high">> ELSE <<"low">>),
     scam_type |-> IF shape.scam = "gift" THEN VStr(<<"gift card">>) ELSE VNull,
     reasons |-> CASE shape.reasons = "one" -> VList(<<VStr(<<"urgent">>)>>)
                   [] shape.reasons = "brace" -> VList(<<VStr(<<"}">>)>>)
                   [] shape.reasons = "null" -> VNull
                   [] OTHER -> VList(<<>>),
     confidence |-> VNum(IF shape.conf = "0.9" THEN 9 ELSE 0)]

\* the answer is one JSON object, wrapped or not in prose and code fences,
\* whose risk_level (if given) is a string and whose confidence (if given) is
\* a number
WrappedObject(outcome) ==
    /\ outcome.kind = "http" /\ outcome.status = 200 /\ outcome.body = "text"
    /\ outcome.shape.raw = "none"
    /\ outcome.shape.risk \in {"absent", "HIGH"}
    /\ outcome.shape.conf \in {"absent", "0.9"}

\* no brace in the text before the object, none inside its strings
BracesOnlyStructural(shape) ==
    /\ shape.pre # "prose_brace"
    /\ shape.reasons # "brace"

\* C10 (as amended): for an answer that wraps one JSON object in prose and/or
\* code fences, with no brace in the text before the object and none inside
\* the object's strings, analyze_transcript returns the object's risk_level
\* lower-cased, its confidence, scam_type None and reasons [] where absent;
\* nested objects are kept whole.
C10_WrappedObjectExtracted ==
    (ClsDone /\ cfg.gemini /\ WrappedObject(call.outcome)
        /\ BracesOnlyStructural(call.outcome.shape))
      => (ret.raised = "" /\ ret.value = ExpectedAnalysis(call.outcome.shape))

\* C10 (as claimed): the same for every answer that wraps one JSON object in
\* prose and/or code fences.
C10_AsClaimed ==
    (ClsDone /\ cfg.gemini /\ WrappedObject(call.outcome))
      => (ret.raised = "" /\ ret.value = ExpectedAnalysis(call.outcome.shape))

\* "Sure! <fence>json {"meta": {...}, "risk_level": "HIGH", "confidence": 0.9}
\* <fence>" was answered with high / 0.9 / None / []
C10_Witness ==
    /\ ClsDone
    /\ cfg.gemini
    /\ call.outcome.body = "text"
    /\ call.outcome.shape =
          [raw |-> "none", pre |-> "prose_fence", extra |-> "nested",
           risk |-> "HIGH", conf |-> "0.9", reasons |-> "absent",
           scam |-> "absent", post |-> "fence"]
    /\ ret.value = [risk_level |-> VStr(<<"high">>), scam_type |-> VNull,
                    reasons |-> VList(<<>>), confidence |-> VNum(9)]

\* the answer is one JSON object as text, its braces only structural
ObjectAnswer(outcome) ==
    /\ outcome.kind = "http" /\ outcome.status = 200 /\ outcome.body = "text"
    /\ outcome.shape.raw = "none"
    /\ BracesOnlyStructural(outcome.shape)

\* each field of the object coerced on its own
CoercedRisk(shape) == VStr(IF shape.risk = "HIGH" THEN <<"high">> ELSE <<"low">>)
CoercedConfidence(shape) ==
    VNum(CASE shape.conf \in {"0.9", "str0.9"} -> 9 [] shape.conf = "5" -> 50 [] OTHER -> 0)
CoercedReasons(shape) ==
    IF shape.reasons = "one" THEN VList(<<VStr(<<"urgent">>)>>) ELSE VList(<<>>)

\* C12 (as claimed): when fields of the answered object are missing or
\* mistyped, each field is coerced independently and the well-formed ones are
\* kept: risk_level lower-cased, or low if missing or not a string; reasons
\* the given list, or [] if missing; confidence coerced to a number, or 0.0 if
\* missing or not coercible.  In particular HIGH is still reported as high
\* when confidence is mistyped.
C12_AsClaimed ==
    (ClsDone /\ cfg.gemini /\ ObjectAnswer(call.outcome)
        /\ call.outcome.shape.reasons # "null")
      => /\ ret.raised = ""
         /\ ret.value.risk_level = CoercedRisk(call.outcome.shape)
         /\ ret.value.reasons = CoercedReasons(call.outcome.shape)
         /\ ret.value.confidence = CoercedConfidence(call.outcome.shape)

\* the values the response models document for a verdict; numbers are in
\* tenths, so 1.0 is 10
RiskLevels == {VStr(<<"low">>), VStr(<<"medium">>), VStr(<<"high">>)}
IsListOfStr(v) == v.t = "list" /\ \A k \in 1..Len(v.items) : v.items[k].t = "str"
IsProbability(v) == v.t = "num" /\ v.n \in 0..10

\* C13 (as claimed): every verdict analyze_transcript returns has a risk_level
\* among low, medium and high, reasons that are a list of strings and a
\* confidence in [0, 1].
C13_AsClaimed ==
    ClsDone =>
        /\ ret.value.risk_level \in RiskLevels
        /\ IsListOfStr(ret.value.reasons)
        /\ IsProbability(ret.value.confidence)

\* the answers whose text yields no parsable object: no opening brace, an
\* opening brace never closed, a balanced span that is no JSON, and a span
\* cut short by a brace in the prose before the object or inside one of its
\* strings
ParseFailure(outcome) ==
    /\ outcome.kind = "http" /\ outcome.status = 200 /\ outcome.body = "text"
    /\ \/ outcome.shape.raw # "none"
       \/ outcome.shape.pre = "prose_brace"
       \/ outcome.shape.reasons = "brace"

\* C14: every parse failure (no opening brace, an unbalanced opening brace, a
\* balanced span that is not valid JSON, including a span cut short by a brace
\* inside a JSON string or in the preceding prose) gives exactly the default
\* analysis and raises nothing.
C14_ParseFailureGivesDefault ==
    (ClsDone /\ cfg.gemini /\ ParseFailure(call.outcome))
      => (ret.raised = "" /\ ret.value = get_default_analysis)

\* an otherwise well-formed object whose reasons hold the string "}" was
\* answered with the default analysis
C14_Witness ==
    /\ ClsDone
    /\ cfg.gemini
    /\ call.outcome.body = "text"
    /\ call.outcome.shape =
          [raw |-> "none", pre |-> "none", extra |-> "absent",
           risk |-> "HIGH", conf |-> "0.9", reasons |-> "brace",
           scam |-> "gift", post |-> "none"]
    /\ ret.value = get_default_analysis

\* the prompt has been built
ClsSent == cfg.gemini /\ call.phase \in {"awaiting", "done"}

\* there is no context to give: None, the empty string, or nothing but
\* whitespace and newlines
NoContextAvailable(context) == context = None \/ IsBlank(context[1])

\* C18 (as claimed): whenever no context is available to analyze_transcript
\* (None, the empty string, or only whitespace and newlines) the prompt says
\* "No context", and the context field of a prompt is never empty or blank.
C18_AsClaimed ==
    ClsSent =>
        /\ NoContextAvailable(call.context) => call.message.context = <<"No context">>
        /\ ~IsBlank(call.message.context)

IsSuffixOf(u, s) == Len(u) <= Len(s) /\ SubSeq(s, Len(s) - Len(u) + 1, Len(s)) = u

\* u is what is left of s when everything up to the second-to-last newline
\* is dropped
IsLastTwoSegments(u, s) ==
    /\ IsSuffixOf(u, s)
    /\ IF Newlines(s) <= 1 THEN u = s
       ELSE Newlines(u) = 1 /\ s[Len(s) - Len(u)] = "\n"

\* C19: the truncation is deterministic and drops the oldest text first: the
\* prompt is a function of the transcript and the context alone, the context
\* it carries for a supplied context is a suffix of that context, namely its
\* last two newline-separated segments ("No context" when none is supplied),
\* and building the prompt changes no state.
C19_TruncationKeepsSuffix ==
    /\ [](ClsSent =>
            /\ call.message.analyze = call.transcript
            /\ IF call.context = None \/ call.context = Some(<<>>)
               THEN call.message.context = <<"No context">>
               ELSE IsLastTwoSegments(call.message.context, call.context[1]))
    /\ [][call.phase = "start" /\ call'.phase # "start"
            => /\ UNCHANGED <<storeVars, now, last, apiVars>>
               /\ call'.transcript = call.transcript
               /\ call'.context = call.context]_vars

\* the context "a\nb\na" was sent as "b\na"
C19_Witness ==
    /\ ClsSent
    /\ call.context = Some(<<"a", "\n", "b", "\n", "a">>)
    /\ call.message = [context |-> <<"b", "\n", "a">>, analyze |-> <<"a">>]

=============================================================================
